---------------------------- MODULE Spec2Model ----------------------------
(***************************************************************************)
(* Model of the loadmaster worker: the intake loop of main.rs, the run     *)
(* orchestrator LoadTestExecutor::execute of load_test.rs with the request *)
(* tasks it spawns, and the Statistics aggregate of stats.rs.              *)
(*                                                                         *)
(* One delivery is followed from the consumer to the end of its run.  Time *)
(* is the number of milliseconds since start_time.  It is observed at the   *)
(* duration check, when a permit is acquired, when a response arrives, at  *)
(* the sample and at the final report; each instant is the previous one or *)
(* the next whole second, and a pacing sleep moves it to the sleep's       *)
(* deadline at least.  The rates that the code derives from the clock at   *)
(* nanosecond resolution (rps, requests_per_second) are not kept.          *)
(***************************************************************************)
EXTENDS Integers, Sequences, FiniteSets, Bags, TLC

(***************************************************************************)
(* Bounds of the model.                                                    *)
(***************************************************************************)
MaxUsers == 2
MaxRequests == 3
MaxDuration == 2
MaxRate == 2
\* The record calls on statistics taken apart from a run.
MaxRecords == 25
\* The binary digits kept after the point of the mean response time.
FracBits == 10

(***************************************************************************)
(* Program constants.                                                      *)
(***************************************************************************)
MillisPerSecond == 1000
MinDelayMillis == 10
\* Histogram::<u64>::new_with_bounds(1, 60000, 3)
HistogramHigh == 60000
HistogramSigFigs == 3
\* f64::MANTISSA_DIGITS: the binary digits of the significand of an f64.
MantissaDigits == 53

\* What a send can return.
StatusCodes == {200}
ErrorLabels == {"timeout"}

\* The wall clock (Utc::now()) is not tied to start_time.elapsed(): it can
\* be set, forward or back, while a run is under way.  A reading of it is
\* any instant of a span as long as the longest run: whole seconds since
\* the epoch and the milliseconds of the second under way.
UtcNow == [ secs : 1700000000 .. (1700000000 + MaxDuration),
            subsec_millis : {0, 500} ]

NoMessage == [none |-> TRUE]
NoStats == [none |-> TRUE]
NoResult == [none |-> TRUE]

\* The indices the for loop can reach: the largest budget, which is
\* MaxRequests, or that of a run of two full batches at the highest rate.
MaxBudget == IF MaxRequests >= 2 * MaxRate THEN MaxRequests ELSE 2 * MaxRate

TaskIds == 0 .. (MaxBudget - 1)

VARIABLES
    delivery,       \* the payload of the delivery taken from the consumer
    main_pc,        \* position of main's consumer loop for this delivery:
                    \* receive, ack (spawned, ack pending), next_delivery,
                    \* panicked (its settlement was refused, the process
                    \* ended), ended (the process ended later)
    settlement,     \* sequence of "ack" / "nack" sent for the delivery
    message,        \* LoadTestExecutor.message, NoMessage before construction
    pc,             \* position of execute
    i,              \* loop variable of the dispatch loop
    now,            \* milliseconds since start_time, as last read or known
    wake_at,        \* deadline of the pacing sleep in progress
    permits,        \* free permits of the semaphore
    stats_guard,    \* holder of the statistics mutex: none, task, sampler, final
    stats,          \* the Statistics behind the mutex, NoStats before creation
    tasks,          \* the spawned request tasks, by loop index
    handles,        \* the JoinHandles pushed so far (loop indices)
    time_series_data,
    pacing_delays,  \* 1-based request indices after which sleep was called
    metrics_queue,  \* Metric records delivered to the metrics queue
    results_queue,  \* TestResult records delivered to the results queue
    duration_limit_reached, \* the "Duration limit reached" branch was taken
    result          \* the TestResult assembled by execute, NoResult before

vars == << delivery, main_pc, settlement, message, pc, i, now, wake_at,
           permits, stats_guard, stats, tasks, handles,
           time_series_data, pacing_delays, metrics_queue, results_queue,
           duration_limit_reached, result >>

(***************************************************************************)
(* types.rs: LoadTestMessage and its deserialisation.  A payload is either *)
(* not a JSON object of the right shape, or a JSON object whose numeric    *)
(* fields are integers; the u32 fields refuse negative numbers.            *)
(***************************************************************************)
Payloads ==
    { [wellformed |-> FALSE, concurrentUsers |-> 0, totalRequests |-> 0,
       durationSeconds |-> 0, requestsPerSecond |-> 0] }
    \cup
    [ wellformed : {TRUE},
      concurrentUsers : -1 .. MaxUsers,
      totalRequests : 0 .. MaxRequests,
      durationSeconds : 0 .. MaxDuration,
      requestsPerSecond : 0 .. MaxRate ]

from_str_ok(p) ==
    /\ p.wellformed
    /\ p.concurrentUsers >= 0
    /\ p.totalRequests >= 0
    /\ p.durationSeconds >= 0
    /\ p.requestsPerSecond >= 0

from_str(p) ==
    [ concurrent_users |-> p.concurrentUsers,
      total_requests |-> p.totalRequests,
      duration_seconds |-> p.durationSeconds,
      requests_per_second |-> p.requestsPerSecond ]

(***************************************************************************)
(* stats.rs: Statistics.                                                   *)
(***************************************************************************)
MapIncr(m, k) ==
    IF k \in DOMAIN m THEN [m EXCEPT ![k] = @ + 1] ELSE m @@ (k :> 1)

StatisticsNew ==
    [ total_requests |-> 0,
      successful_requests |-> 0,
      failed_requests |-> 0,
      response_times |-> EmptyBag,
      status_codes |-> << >>,
      errors |-> << >> ]

\* The smallest p * 2^k that is at least n.
RECURSIVE DoubleUpTo(_, _)
DoubleUpTo(p, n) == IF p >= n THEN p ELSE DoubleUpTo(2 * p, n)

\* The histogram keeps the values below sub_bucket_count exactly (three
\* significant digits need 2 * 10^3 sub-buckets, rounded up to a power of
\* two) and has buckets up to the first power-of-two multiple of it above
\* the highest value asked for.
SubBucketCount == DoubleUpTo(1, 2 * (10 ^ HistogramSigFigs))
SmallestUntrackable == DoubleUpTo(SubBucketCount, HistogramHigh + 1)

\* The number of values that share the bucket of v.
RECURSIVE size_of_equivalent_range(_)
size_of_equivalent_range(v) ==
    IF v < SubBucketCount THEN 1 ELSE 2 * size_of_equivalent_range(v \div 2)

lowest_equivalent(v) ==
    (v \div size_of_equivalent_range(v)) * size_of_equivalent_range(v)

median_equivalent(v) ==
    lowest_equivalent(v) + (size_of_equivalent_range(v) \div 2)

\* Histogram::record(value).ok(): the count of the bucket of the value goes
\* up by one; a value the histogram has no bucket for is dropped.
histogram_record(h, v) ==
    IF v < SmallestUntrackable THEN MapIncr(h, lowest_equivalent(v)) ELSE h

\* Mutant: record_success forgets the success counter.
record_success_nosuccess(s) ==
    [ s EXCEPT !.total_requests = @ + 1 ]

\* Lines 29-30: the counters of record_success.
record_success_counters(s) ==
    [ s EXCEPT !.total_requests = @ + 1,
               !.successful_requests = @ + 1 ]

\* Lines 32-36: the histogram and the status codes of record_success.
record_success_maps(s, response_time_ms, status_code) ==
    [ s EXCEPT !.response_times = histogram_record(@, response_time_ms),
               !.status_codes = MapIncr(@, status_code) ]

\* Lines 28-37.
record_success(s, response_time_ms, status_code) ==
    record_success_maps(record_success_counters(s), response_time_ms,
                        status_code)

\* Mutant: record_failure forgets the total counter.
record_failure_nototal(s) ==
    [ s EXCEPT !.failed_requests = @ + 1 ]

\* Lines 40-41: the counters of record_failure.
record_failure_counters(s) ==
    [ s EXCEPT !.total_requests = @ + 1,
               !.failed_requests = @ + 1 ]

\* Mutant: record_failure counts the failure under a status code as well.
record_failure_maps_status(s, error) ==
    [ s EXCEPT !.errors = MapIncr(@, error),
               !.status_codes = MapIncr(@, 0) ]

\* Lines 43-44: the error labels of record_failure.
record_failure_maps(s, error) ==
    [ s EXCEPT !.errors = MapIncr(@, error) ]

\* Lines 39-45.
record_failure(s, error) ==
    record_failure_maps(record_failure_counters(s), error)

\* The mean of the histogram is kept as the integer nearest to it * Scale: a
\* binary fraction of FracBits digits.
Scale == 2 ^ FracBits

\* The representable value nearest to n / d, for n >= 0 and d > 0.
Nearest(n, d) == (2 * n + d) \div (2 * d)

\* The sum over the buckets of the histogram of count * median_equivalent.
RECURSIVE BagSum(_)
BagSum(b) ==
    IF DOMAIN b = {} THEN 0
    ELSE LET v == CHOOSE x \in DOMAIN b : TRUE
         IN median_equivalent(v) * b[v]
                + BagSum([x \in DOMAIN b \ {v} |-> b[x]])

\* Histogram::mean as f64 (in units of 1 / Scale ms); 0.0 for an empty
\* histogram.
get_average(s) ==
    IF BagCardinality(s.response_times) = 0 THEN 0
    ELSE Nearest(BagSum(s.response_times) * Scale,
                 BagCardinality(s.response_times))

(***************************************************************************)
(* The f64 arithmetic of error_rate.  A significand of 53 binary digits    *)
(* does not fit the integers of the model: a natural number is kept as the *)
(* sequence of its binary digits, the least significant first and the last *)
(* one 1 (the empty sequence is 0).                                        *)
(***************************************************************************)
RECURSIVE Binary(_)
Binary(n) == IF n = 0 THEN << >> ELSE << n % 2 >> \o Binary(n \div 2)

\* x + carry, for a small natural number carry.
RECURSIVE Plus(_, _)
Plus(x, carry) ==
    IF carry = 0 THEN x
    ELSE IF x = << >> THEN Binary(carry)
    ELSE << (Head(x) + carry) % 2 >>
             \o Plus(Tail(x), (Head(x) + carry) \div 2)

\* x * k + carry, for small natural numbers k > 0 and carry.
RECURSIVE TimesPlus(_, _, _)
TimesPlus(x, k, carry) ==
    IF x = << >> THEN Binary(carry)
    ELSE << (Head(x) * k + carry) % 2 >>
             \o TimesPlus(Tail(x), k, (Head(x) * k + carry) \div 2)

\* x * k, for a small natural number k.
Times(x, k) == IF k = 0 THEN << >> ELSE TimesPlus(x, k, 0)

\* x * 2^n
ShiftLeft(x, n) == IF x = << >> THEN << >> ELSE [k \in 1 .. n |-> 0] \o x

\* x < y
Less(x, y) ==
    \/ Len(x) < Len(y)
    \/ /\ Len(x) = Len(y)
       /\ \E k \in 1 .. Len(x) :
              /\ x[k] < y[k]
              /\ \A j \in (k + 1) .. Len(x) : x[j] = y[j]

\* An f64 that is zero or positive and normal: sig * 2^exp with a
\* significand sig of MantissaDigits binary digits; 0.0 has no digits.
F64Zero == [sig |-> << >>, exp |-> 0]

\* The f64 nearest to a value v with x * 2^e <= v < (x + 1) * 2^e, where
\* sticky tells that v is above x * 2^e (then x has more than MantissaDigits
\* digits): round to nearest, ties to the even significand.
f64_round(x, e, sticky) ==
    IF x = << >> THEN F64Zero
    ELSE IF Len(x) <= MantissaDigits
    THEN [ sig |-> ShiftLeft(x, MantissaDigits - Len(x)),
           exp |-> e - (MantissaDigits - Len(x)) ]
    ELSE LET drop == Len(x) - MantissaDigits
             kept == SubSeq(x, drop + 1, Len(x))
             half == x[drop] = 1
             rest == sticky \/ \E k \in 1 .. (drop - 1) : x[k] = 1
             r == IF half /\ (rest \/ kept[1] = 1) THEN Plus(kept, 1)
                  ELSE kept
         IN IF Len(r) > MantissaDigits
            THEN [sig |-> Tail(r), exp |-> e + drop + 1]
            ELSE [sig |-> r, exp |-> e + drop]

\* The binary digits of a quotient by b, from the digits q found so far and
\* the remainder r < b, until the division ends or q has one digit more
\* than a significand; places counts the digits after the point.
RECURSIVE LongDivision(_, _, _, _)
LongDivision(q, r, b, places) ==
    IF r = 0 \/ Len(q) > MantissaDigits
    THEN [q |-> q, r |-> r, places |-> places]
    ELSE LET bit == IF 2 * r >= b THEN 1 ELSE 0
         IN LongDivision(IF q = << >> /\ bit = 0 THEN << >>
                         ELSE << bit >> \o q,
                         2 * r - bit * b, b, places + 1)

\* a as f64 / b as f64 for natural numbers a and b > 0 that an f64 holds
\* exactly: the quotient, rounded.
f64_div(a, b) ==
    LET d == LongDivision(Binary(a \div b), a % b, b, 0)
    IN f64_round(d.q, 0 - d.places, d.r # 0)

\* x * (k as f64) for a natural number k that an f64 holds exactly: the
\* product, rounded.
f64_mul(x, k) == f64_round(Times(x.sig, k), x.exp, FALSE)

\* The most requests that statistics of the model record.
MostRecorded == IF MaxRecords >= MaxBudget THEN MaxRecords ELSE MaxBudget

\* (failed as f64 / total as f64) * 100.0, rounded after the division and
\* again after the multiplication, for every pair of counters of the model
\* (worked out once).
Percentages ==
    [ total \in 1 .. MostRecorded |->
        [ failed \in 0 .. total |-> f64_mul(f64_div(failed, total), 100) ] ]

\* Mutant: the fraction failed / total is returned, not the percentage.
error_rate_fraction(s) ==
    IF s.total_requests = 0 THEN F64Zero
    ELSE f64_div(s.failed_requests, s.total_requests)

\* Lines 77-83: 0.0 when nothing was recorded, and otherwise
\* (failed as f64 / total as f64) * 100.0.
error_rate(s) ==
    IF s.total_requests = 0 THEN F64Zero
    ELSE Percentages[s.total_requests][s.failed_requests]

(***************************************************************************)
(* load_test.rs: the pieces of execute.                                    *)
(***************************************************************************)
\* Mutant: the semaphore is created with one permit too many.
SemaphoreNew_extra(concurrent_users) == concurrent_users + 1

\* Line 45: Semaphore::new(concurrent_users as usize)
SemaphoreNew(concurrent_users) == concurrent_users

\* Lines 48-52, in milliseconds.
delay_between_requests(m) ==
    IF m.requests_per_second > 0
    THEN MillisPerSecond \div m.requests_per_second
    ELSE MinDelayMillis

\* The first whole second after the instant prev.
NextSecond(prev) == ((prev \div MillisPerSecond) + 1) * MillisPerSecond

\* The instants the clock can be at after it was at prev: the same
\* millisecond, or the next whole second, up to the longest duration of the
\* model.
Clock(prev) ==
    {prev} \cup {t \in {NextSecond(prev)} : t <= MaxDuration * MillisPerSecond}

\* Line 62, in milliseconds.
test_duration(m) == m.duration_seconds * MillisPerSecond

\* Mutant: the loop stops only after the ceiling is passed.
DurationExceeded_strict(m, elapsed) == elapsed > test_duration(m)

\* start_time.elapsed() >= test_duration
DurationExceeded(m, elapsed) == elapsed >= test_duration(m)

\* Mutant: the pacing condition tests i instead of i + 1.
BatchComplete_offbyone(m, idx) == idx % m.requests_per_second = 0

\* (i + 1) % requests_per_second == 0, for a non-zero requests_per_second
BatchComplete(m, idx) == (idx + 1) % m.requests_per_second = 0

\* A request task: where it is (unspawned, sending, lock_success,
\* record_success, lock_failure, record_failure, drop_permit, finished),
\* its request_start while it sends, and the outcome it carries to the
\* statistics lock.
IdleTask == [st |-> "unspawned", request_start |-> 0, response_time |-> 0,
             status |-> 0, error |-> ""]

Holding == {"sending", "lock_success", "record_success", "lock_failure",
            "record_failure", "drop_permit"}
Unrecorded == {"sending", "lock_success", "record_success", "lock_failure",
               "record_failure"}

PermitsHeld == Cardinality({t \in TaskIds : tasks[t].st \in Holding})
InFlight == Cardinality({t \in TaskIds : tasks[t].st \in Unrecorded})

\* DateTime::timestamp of a reading of the wall clock: its whole seconds
\* since the epoch, the fraction of the second dropped.
utc_timestamp(utc) == utc.secs

\* Lines 131-136, without rps.
TimeSeriesPoint(s, timestamp) ==
    [ timestamp |-> timestamp,
      avg_response_time |-> get_average(s),
      error_rate |-> error_rate(s) ]

\* Lines 139-149.
Metric(s, m) ==
    [ request_count |-> s.total_requests,
      success_count |-> s.successful_requests,
      error_count |-> s.failed_requests,
      avg_response_time |-> get_average(s),
      active_users |-> m.concurrent_users ]

\* Lines 180-196, without the percentiles, the minimum, the maximum and
\* requests_per_second.
TestResult(s, series) ==
    [ total_requests |-> s.total_requests,
      successful_requests |-> s.successful_requests,
      failed_requests |-> s.failed_requests,
      average_response_time |-> get_average(s),
      error_rate |-> error_rate(s),
      status_code_distribution |-> s.status_codes,
      error_distribution |-> s.errors,
      time_series_data |-> series ]

(***************************************************************************)
(* Initial state: a delivery has arrived, nothing has been done with it.   *)
(***************************************************************************)
Init ==
    /\ delivery \in Payloads
    /\ main_pc = "receive"
    /\ settlement = << >>
    /\ message = NoMessage
    /\ pc = "not_spawned"
    /\ i = 0
    /\ now = 0
    /\ wake_at = 0
    /\ permits = 0
    /\ stats_guard = "none"
    /\ stats = NoStats
    /\ tasks = [t \in TaskIds |-> IdleTask]
    /\ handles = << >>
    /\ time_series_data = << >>
    /\ pacing_delays = << >>
    /\ metrics_queue = << >>
    /\ results_queue = << >>
    /\ duration_limit_reached = FALSE
    /\ result = NoResult

(***************************************************************************)
(* main.rs: the consumer loop, for one delivery.                           *)
(***************************************************************************)
\* While main has neither panicked nor returned the runtime and its tasks
\* are alive; the end of main ends the process, with whatever it was doing.
ProcessAlive == main_pc \notin {"panicked", "ended"}

\* Lines 93-110: serde_json::from_str succeeds, the executor is constructed
\* and its execute is spawned on the runtime; the ack is still to come.
ReceiveParsed ==
    /\ main_pc = "receive"
    /\ from_str_ok(delivery)
    /\ message' = from_str(delivery)
    /\ pc' = "start"
    /\ main_pc' = "ack"
    /\ UNCHANGED << delivery, settlement, i, now, wake_at, permits,
                    stats_guard, stats, tasks, handles,
                    time_series_data, pacing_delays, metrics_queue,
                    results_queue, duration_limit_reached, result >>

\* Lines 113-116: delivery.ack(..).await returns, while the spawned execute
\* runs; on an error expect panics, with the delivery unsettled.
Ack(ok) ==
    /\ main_pc = "ack"
    /\ settlement' = IF ok THEN Append(settlement, "ack") ELSE settlement
    /\ main_pc' = IF ok THEN "next_delivery" ELSE "panicked"
    /\ UNCHANGED << delivery, message, pc, i, now, wake_at, permits,
                    stats_guard, stats, tasks, handles,
                    time_series_data, pacing_delays, metrics_queue,
                    results_queue, duration_limit_reached, result >>

\* Lines 87-137: main has gone on to the deliveries that follow, while the
\* run spawned for this one may be under way.  The process ends when the
\* settlement of one of them is refused (expect panics, lines 116 and 126)
\* or when the consumer stream ends (the loop ends and main returns, line
\* 137, which drops the runtime).
ProcessEnds ==
    /\ main_pc = "next_delivery"
    /\ main_pc' = "ended"
    /\ UNCHANGED << delivery, settlement, message, pc, i, now, wake_at,
                    permits, stats_guard, stats, tasks, handles,
                    time_series_data, pacing_delays, metrics_queue,
                    results_queue, duration_limit_reached, result >>

\* Mutant: the delivery that does not parse is acked.
ReceiveUnparsable_ack(ok) ==
    /\ main_pc = "receive"
    /\ ~ from_str_ok(delivery)
    /\ settlement' = IF ok THEN Append(settlement, "ack") ELSE settlement
    /\ main_pc' = IF ok THEN "next_delivery" ELSE "panicked"
    /\ UNCHANGED << delivery, message, pc, i, now, wake_at, permits,
                    stats_guard, stats, tasks, handles,
                    time_series_data, pacing_delays, metrics_queue,
                    results_queue, duration_limit_reached, result >>

\* Lines 118-127: serde_json::from_str fails, nack without requeue; on an
\* error of the nack expect panics.
ReceiveUnparsable(ok) ==
    /\ main_pc = "receive"
    /\ ~ from_str_ok(delivery)
    /\ settlement' = IF ok THEN Append(settlement, "nack") ELSE settlement
    /\ main_pc' = IF ok THEN "next_delivery" ELSE "panicked"
    /\ UNCHANGED << delivery, message, pc, i, now, wake_at, permits,
                    stats_guard, stats, tasks, handles,
                    time_series_data, pacing_delays, metrics_queue,
                    results_queue, duration_limit_reached, result >>

(***************************************************************************)
(* load_test.rs: LoadTestExecutor::execute.                                *)
(***************************************************************************)
\* Lines 36-63: start_time, the statistics, the client, the semaphore.
\* When Client::builder().build() fails (line 42) execute returns the error
\* with the statistics created and nothing else.
Start(ok) ==
    /\ pc = "start"
    /\ stats' = StatisticsNew
    /\ now' = 0
    /\ i' = 0
    /\ permits' = IF ok THEN SemaphoreNew(message.concurrent_users)
                   ELSE permits
    /\ pc' = IF ok THEN "loop_check" ELSE "returned_err"
    /\ UNCHANGED << delivery, main_pc, settlement, message, wake_at,
                    stats_guard, tasks, handles, time_series_data,
                    pacing_delays, metrics_queue, results_queue,
                    duration_limit_reached, result >>

\* Mutant: the duration branch logs but does not leave the loop.
LoopCheck_nobreak(elapsed) ==
    /\ pc = "loop_check"
    /\ IF i >= message.total_requests
       THEN /\ pc' = "join"
            /\ UNCHANGED << now, duration_limit_reached >>
       ELSE /\ now' = elapsed
            /\ pc' = "acquire"
            /\ duration_limit_reached' =
                   (duration_limit_reached \/ DurationExceeded(message, elapsed))
    /\ UNCHANGED << delivery, main_pc, settlement, message, i, wake_at,
                    permits, stats_guard, stats, tasks, handles,
                    time_series_data, pacing_delays, metrics_queue,
                    results_queue, result >>

\* Lines 66-71: the head of the for loop and the duration check, which
\* reads the clock.
LoopCheck(elapsed) ==
    /\ pc = "loop_check"
    /\ IF i >= message.total_requests
       THEN /\ pc' = "join"
            /\ UNCHANGED << now, duration_limit_reached >>
       ELSE /\ now' = elapsed
            /\ IF DurationExceeded(message, elapsed)
               THEN /\ pc' = "join"
                    /\ duration_limit_reached' = TRUE
               ELSE /\ pc' = "acquire"
                    /\ UNCHANGED duration_limit_reached
    /\ UNCHANGED << delivery, main_pc, settlement, message, i, wake_at,
                    permits, stats_guard, stats, tasks, handles,
                    time_series_data, pacing_delays, metrics_queue,
                    results_queue, result >>

\* Lines 73-124: a permit is acquired at the instant elapsed, the request
\* task is spawned with it and takes its request_start, its handle is
\* pushed, and the pacing condition is evaluated; the sleep starts at that
\* instant.  The remainder by a zero
\* requests_per_second panics and ends execute.
Dispatch(elapsed) ==
    /\ pc = "acquire"
    /\ permits > 0
    /\ permits' = permits - 1
    /\ now' = elapsed
    /\ tasks' = [tasks EXCEPT ![i] = [IdleTask EXCEPT !.st = "sending",
                                                     !.request_start = elapsed]]
    /\ handles' = Append(handles, i)
    /\ IF message.requests_per_second = 0
       THEN /\ pc' = "panicked"
            /\ UNCHANGED << i, wake_at, pacing_delays >>
       ELSE IF BatchComplete(message, i)
       THEN /\ pc' = "sleep"
            /\ wake_at' = elapsed + delay_between_requests(message)
            /\ pacing_delays' = Append(pacing_delays, i + 1)
            /\ UNCHANGED i
       ELSE /\ pc' = "loop_check"
            /\ i' = i + 1
            /\ UNCHANGED << wake_at, pacing_delays >>
    /\ UNCHANGED << delivery, main_pc, settlement, message, stats_guard,
                    stats, time_series_data, metrics_queue,
                    results_queue, duration_limit_reached, result >>

\* Mutant: the statistics are shared without the mutex.
LockFree_nolock == TRUE

\* stats.lock().await returns when no other guard of the mutex is alive.
LockFree == stats_guard = "none"

\* The later of two instants.
Later(a, b) == IF a >= b THEN a ELSE b

\* Mutant: the sampler drops its guard before it publishes the metric.
Sample_dropguard(elapsed, utc) ==
    /\ pc = "sleep"
    /\ elapsed >= wake_at
    /\ LockFree
    /\ stats_guard' = "none"
    /\ now' = elapsed
    /\ wake_at' = 0
    /\ time_series_data' =
           Append(time_series_data,
                  TimeSeriesPoint(stats, utc_timestamp(utc)))
    /\ pc' = "publish_metric"
    /\ UNCHANGED << delivery, main_pc, settlement, message, i,
                    permits, stats, tasks, handles, pacing_delays,
                    metrics_queue, results_queue, duration_limit_reached,
                    result >>

\* Lines 123-149: the sleep returns, no earlier than its deadline; the
\* statistics lock is taken, the clock and the wall clock are read, the
\* point is pushed and the metric is built; the guard stays alive across the
\* publish.  The wall clock reads utc.
Sample(elapsed, utc) ==
    /\ pc = "sleep"
    /\ elapsed >= wake_at
    /\ LockFree
    /\ stats_guard' = "sampler"
    /\ now' = elapsed
    /\ wake_at' = 0
    /\ time_series_data' =
           Append(time_series_data,
                  TimeSeriesPoint(stats, utc_timestamp(utc)))
    /\ pc' = "publish_metric"
    /\ UNCHANGED << delivery, main_pc, settlement, message, i,
                    permits, stats, tasks, handles, pacing_delays,
                    metrics_queue, results_queue, duration_limit_reached,
                    result >>

\* Mutant: a failed publish of a metric is returned with ?.
PublishMetric_abort(ok) ==
    /\ pc = "publish_metric"
    /\ metrics_queue' = IF ok THEN Append(metrics_queue, Metric(stats, message))
                        ELSE metrics_queue
    /\ stats_guard' = "none"
    /\ i' = IF ok THEN i + 1 ELSE i
    /\ pc' = IF ok THEN "loop_check" ELSE "returned_err"
    /\ UNCHANGED << delivery, main_pc, settlement, message, now, wake_at,
                    permits, stats, tasks, handles, time_series_data,
                    pacing_delays, results_queue, duration_limit_reached,
                    result >>

\* Mutant: the sampler's guard outlives the loop iteration.
PublishMetric_keepguard(ok) ==
    /\ pc = "publish_metric"
    /\ metrics_queue' = IF ok THEN Append(metrics_queue, Metric(stats, message))
                        ELSE metrics_queue
    /\ i' = i + 1
    /\ pc' = "loop_check"
    /\ UNCHANGED << delivery, main_pc, settlement, message, now, wake_at,
                    permits, stats_guard, stats, tasks, handles,
                    time_series_data, pacing_delays, results_queue,
                    duration_limit_reached, result >>

\* Lines 151-163: basic_publish of the metric returns; its result is
\* discarded, the guard is dropped and the loop goes to the next index.
PublishMetric(ok) ==
    /\ pc = "publish_metric"
    /\ metrics_queue' = IF ok THEN Append(metrics_queue, Metric(stats, message))
                        ELSE metrics_queue
    /\ stats_guard' = "none"
    /\ i' = i + 1
    /\ pc' = "loop_check"
    /\ UNCHANGED << delivery, main_pc, settlement, message, now, wake_at,
                    permits, stats, tasks, handles, time_series_data,
                    pacing_delays, results_queue, duration_limit_reached,
                    result >>

\* Mutant: the handles are not awaited.
HandleFinished_nowait(h) == TRUE

\* handle.await for handles[h]
HandleFinished(h) == tasks[handles[h]].st = "finished"

\* Lines 166-196: every handle is awaited, total_duration is read, the final
\* lock is taken and the TestResult is assembled.
Final(elapsed) ==
    /\ pc = "join"
    /\ \A h \in 1 .. Len(handles) : HandleFinished(h)
    /\ LockFree
    /\ stats_guard' = "final"
    /\ now' = elapsed
    /\ result' = TestResult(stats, time_series_data)
    /\ pc' = "publish_result"
    /\ UNCHANGED << delivery, main_pc, settlement, message, i, wake_at,
                    permits, stats, tasks, handles, time_series_data,
                    pacing_delays, metrics_queue, results_queue,
                    duration_limit_reached >>

\* Mutant: the result of the publish of the result is discarded, like that
\* of the publish of a metric.
PublishResult_swallow(ok) ==
    /\ pc = "publish_result"
    /\ results_queue' = IF ok THEN Append(results_queue, result)
                        ELSE results_queue
    /\ pc' = "returned_ok"
    /\ stats_guard' = "none"
    /\ UNCHANGED << delivery, main_pc, settlement, message, i, now, wake_at,
                    permits, stats, tasks, handles, time_series_data,
                    pacing_delays, metrics_queue, duration_limit_reached,
                    result >>

\* Lines 199-212: basic_publish of the result; an error is returned with ?.
PublishResult(ok) ==
    /\ pc = "publish_result"
    /\ results_queue' = IF ok THEN Append(results_queue, result)
                        ELSE results_queue
    /\ pc' = IF ok THEN "returned_ok" ELSE "returned_err"
    /\ stats_guard' = "none"
    /\ UNCHANGED << delivery, main_pc, settlement, message, i, now, wake_at,
                    permits, stats, tasks, handles, time_series_data,
                    pacing_delays, metrics_queue, duration_limit_reached,
                    result >>

(***************************************************************************)
(* load_test.rs lines 78-117: one spawned request task.                    *)
(***************************************************************************)
TaskUnchanged ==
    UNCHANGED << delivery, main_pc, settlement, message, pc, i,
                 wake_at, handles, time_series_data,
                 pacing_delays, metrics_queue, results_queue,
                 duration_limit_reached, result >>

\* Lines 81-106: send() returns a response at the instant elapsed: status
\* and response_time = request_start.elapsed().as_millis() are taken.
SendOk(t, status, elapsed) ==
    /\ tasks[t].st = "sending"
    /\ now' = elapsed
    /\ tasks' = [tasks EXCEPT ![t] =
                    [st |-> "lock_success", request_start |-> 0,
                     response_time |-> elapsed - tasks[t].request_start,
                     status |-> status, error |-> ""]]
    /\ UNCHANGED << permits, stats, stats_guard >>
    /\ TaskUnchanged

\* send() returns a transport error.
SendErr(t, e) ==
    /\ tasks[t].st = "sending"
    /\ tasks' = [tasks EXCEPT ![t] = [st |-> "lock_failure",
                                      request_start |-> 0,
                                      response_time |-> 0,
                                      status |-> 0, error |-> e]]
    /\ UNCHANGED << now, permits, stats, stats_guard >>
    /\ TaskUnchanged

\* Lines 107-108: the lock is taken and record_success updates the counters.
LockSuccess(t) ==
    /\ tasks[t].st = "lock_success"
    /\ LockFree
    /\ stats_guard' = "task"
    /\ stats' = record_success_counters(stats)
    /\ tasks' = [tasks EXCEPT ![t].st = "record_success"]
    /\ UNCHANGED << now, permits >>
    /\ TaskUnchanged

\* Lines 108-109: record_success updates the histogram and the status
\* codes; the guard is dropped at the end of the arm.
RecordSuccess(t) ==
    /\ tasks[t].st = "record_success"
    /\ stats' = record_success_maps(stats, tasks[t].response_time,
                                    tasks[t].status)
    /\ stats_guard' = "none"
    /\ tasks' = [tasks EXCEPT ![t] = [IdleTask EXCEPT !.st = "drop_permit"]]
    /\ UNCHANGED << now, permits >>
    /\ TaskUnchanged

\* Lines 111-112: the lock is taken and record_failure updates the counters.
LockFailure(t) ==
    /\ tasks[t].st = "lock_failure"
    /\ LockFree
    /\ stats_guard' = "task"
    /\ stats' = record_failure_counters(stats)
    /\ tasks' = [tasks EXCEPT ![t].st = "record_failure"]
    /\ UNCHANGED << now, permits >>
    /\ TaskUnchanged

\* Mutant: the failure arm ends the task without giving its permit back.
RecordFailure_leak(t) ==
    /\ tasks[t].st = "record_failure"
    /\ stats' = record_failure_maps(stats, tasks[t].error)
    /\ stats_guard' = "none"
    /\ tasks' = [tasks EXCEPT ![t] = [IdleTask EXCEPT !.st = "finished"]]
    /\ UNCHANGED << now, permits >>
    /\ TaskUnchanged

\* Lines 112-113: record_failure updates the error labels; the guard is
\* dropped at the end of the arm.
RecordFailure(t) ==
    /\ tasks[t].st = "record_failure"
    /\ stats' = record_failure_maps(stats, tasks[t].error)
    /\ stats_guard' = "none"
    /\ tasks' = [tasks EXCEPT ![t] = [IdleTask EXCEPT !.st = "drop_permit"]]
    /\ UNCHANGED << now, permits >>
    /\ TaskUnchanged

\* Line 116: drop(permit), the task ends.
DropPermit(t) ==
    /\ tasks[t].st = "drop_permit"
    /\ permits' = permits + 1
    /\ tasks' = [tasks EXCEPT ![t].st = "finished"]
    /\ UNCHANGED << now, stats, stats_guard >>
    /\ TaskUnchanged

Execute ==
    \/ \E ok \in BOOLEAN : Start(ok)
    \/ \E elapsed \in Clock(now) : LoopCheck(elapsed)
    \/ \E elapsed \in Clock(now) : Dispatch(elapsed)
    \/ \E elapsed \in Clock(Later(now, wake_at)), utc \in UtcNow :
            Sample(elapsed, utc)
    \/ \E ok \in BOOLEAN : PublishMetric(ok)
    \/ \E elapsed \in Clock(now) : Final(elapsed)
    \/ \E ok \in BOOLEAN : PublishResult(ok)

Task(t) ==
    \/ \E status \in StatusCodes, elapsed \in Clock(now) :
            SendOk(t, status, elapsed)
    \/ \E e \in ErrorLabels : SendErr(t, e)
    \/ LockSuccess(t)
    \/ RecordSuccess(t)
    \/ LockFailure(t)
    \/ RecordFailure(t)
    \/ DropPermit(t)

Next ==
    \/ ReceiveParsed
    \/ \E ok \in BOOLEAN : Ack(ok)
    \/ \E ok \in BOOLEAN : ReceiveUnparsable(ok)
    \/ ProcessEnds
    \/ ProcessAlive /\ Execute
    \/ ProcessAlive /\ \E t \in TaskIds : Task(t)

Spec == Init /\ [][Next]_vars

\* The steps of the delivery and of its run, without the end of the process.
Run ==
    \/ ReceiveParsed
    \/ \E ok \in BOOLEAN : Ack(ok)
    \/ \E ok \in BOOLEAN : ReceiveUnparsable(ok)
    \/ ProcessAlive /\ Execute
    \/ ProcessAlive /\ \E t \in TaskIds : Task(t)

\* While the process is alive the runtime runs a task that can take a step,
\* and every send, sleep, publish and settlement returns; nothing makes the
\* process end.  This is the least that the scheduling of the runtime
\* gives: the fairness of each task taken apart implies it, so what holds
\* under it holds under that as well.
FairSpec == Spec /\ WF_vars(Run)

(***************************************************************************)
(* Properties.                                                             *)
(***************************************************************************)
Constructed == message # NoMessage
Started == stats # NoStats
Assembled == result # NoResult
Finished == {t \in TaskIds : tasks[t].st = "finished"}
Returned == pc \in {"returned_ok", "returned_err"}

\* execute has returned the error of Client::builder().build().
ClientBuildFailed == pc = "returned_err" /\ ~ Assembled

\* Every dispatched request has finished.
AllFinished == \A h \in 1 .. Len(handles) : tasks[handles[h]].st = "finished"

\* C1: at no point do the requests that hold a permit, and so the requests
\* that are admitted and not yet recorded, outnumber concurrent_users.
C1_AdmissionCeiling ==
    Constructed =>
        /\ PermitsHeld <= message.concurrent_users
        /\ InFlight <= message.concurrent_users

\* The ceiling of 2 is reached while the loop waits for a permit.
C1_Witness ==
    /\ Constructed
    /\ message.concurrent_users = 2
    /\ InFlight = 2
    /\ pc = "acquire"

\* C2: with requests_per_second = 0 and a budget of at least 1 the run does
\* not fail on the division by the rate.
C2_ZeroRateRuns ==
    (Constructed /\ message.requests_per_second = 0
        /\ message.total_requests >= 1)
    => pc # "panicked"

\* C3: a delivery with a non-positive concurrentUsers is not acked, no
\* executor runs for it and no Statistics is created for it.
C3_NonPositiveConcurrencyRejected ==
    (delivery.wellformed /\ delivery.concurrentUsers <= 0)
    => /\ settlement # << "ack" >>
       /\ pc = "not_spawned"
       /\ ~ Started

\* C4: when the final statistics are read every dispatched task has
\* finished, every request has been recorded once, as a success or as a
\* failure, and the result counts the dispatched requests.
C4_ResultAfterSettle ==
    Assembled =>
        /\ InFlight = 0
        /\ \A h \in 1 .. Len(handles) : tasks[handles[h]].st = "finished"
        /\ result.total_requests = Len(handles)
        /\ result.successful_requests + result.failed_requests = Len(handles)
        /\ BagCardinality(result.status_code_distribution)
               = result.successful_requests
        /\ BagCardinality(result.error_distribution) = result.failed_requests

\* A result over a success and a failure.
C4_Witness ==
    /\ Assembled
    /\ result.successful_requests >= 1
    /\ result.failed_requests >= 1
    /\ Len(handles) = 3

\* C5: once the semaphore exists the free permits are always
\* concurrent_users minus the permits of the tasks that have not finished
\* (no permit is lost or given back twice), a permit is given back only by
\* a request whose outcome is recorded, and when the run completes all
\* concurrent_users permits are free.
C5_SlotReleasedOnce ==
    (Started /\ ~ ClientBuildFailed) =>
        /\ permits = message.concurrent_users
                        - (Len(handles) - Cardinality(Finished))
        /\ Cardinality(Finished) <= stats.total_requests
        /\ Returned => permits = message.concurrent_users

\* A completed run with a failed and a successful request.
C5_Witness ==
    /\ pc = "returned_ok"
    /\ message.concurrent_users = 2
    /\ permits = 2
    /\ stats.failed_requests >= 1
    /\ stats.successful_requests >= 1

\* C6 as stated: with a concurrency and a rate of at least 1, when every
\* task is scheduled and every send and publish returns, the run ends, with
\* one result published or with the publication error, and a wait for a
\* permit always ends.
C6_RunCompletes ==
    /\ (Constructed /\ message.concurrent_users >= 1
           /\ message.requests_per_second >= 1) ~> Returned
    /\ (pc = "acquire" /\ message.concurrent_users >= 1) ~> (pc # "acquire")
    /\ [](pc = "returned_ok" => Len(results_queue) = 1)
    /\ [](pc = "returned_err" => Len(results_queue) = 0)

\* C6, amended: with a concurrency and a rate of at least 1, when every task
\* is scheduled and every send and publish returns, the run ends and a wait
\* for a permit always ends, unless the worker process ends first (main
\* panics on a refused settlement, of this delivery or of a later one, or
\* returns at the end of the consumer stream).  The run ends with one result
\* published or with the publication error, every dispatched request
\* finished, or, when the HTTP client cannot be built, with that error and
\* nothing dispatched, sampled or published.  (A message, a return and the
\* end of the process are for good, so that a run that is again and again
\* at its end has come to it.)
C6_RunCompletesWhileAlive ==
    /\ []<>(\/ ~ (Constructed /\ message.concurrent_users >= 1
                     /\ message.requests_per_second >= 1)
            \/ Returned
            \/ ~ ProcessAlive)
    /\ []<>(\/ ~ (pc = "acquire" /\ message.concurrent_users >= 1)
            \/ ~ ProcessAlive)
    /\ [][(Constructed => message' = message)
             /\ (Returned => pc' = pc)
             /\ (~ ProcessAlive => main_pc' = main_pc)]_vars
    /\ [](pc = "returned_ok" => Len(results_queue) = 1)
    /\ [](pc = "returned_err" => Len(results_queue) = 0)
    /\ []((Returned /\ Assembled) => AllFinished)
    /\ [](ClientBuildFailed =>
             /\ stats = StatisticsNew
             /\ handles = << >>
             /\ time_series_data = << >>
             /\ metrics_queue = << >>)

\* A run that had more requests than permits and took samples has returned,
\* its delivery acked.
C6_Witness ==
    /\ pc = "returned_ok"
    /\ main_pc = "next_delivery"
    /\ message.concurrent_users = 1
    /\ Len(handles) = 3
    /\ Len(time_series_data) >= 1
    /\ Len(results_queue) = 1

\* C7 as stated: the loop goes on to admit a request only from a duration
\* check that read an elapsed time below the duration; once the check finds
\* the duration reached the loop is left with budget remaining, no request
\* is dispatched afterwards, no dispatched request is taken back, and the
\* requests dispatched before all finish and are recorded.
C7_DurationGate ==
    /\ [][(pc # "acquire" /\ pc' = "acquire")
             => (pc = "loop_check" /\ ~ DurationExceeded(message, now'))]_vars
    /\ [](duration_limit_reached =>
             /\ i < message.total_requests
             /\ pc \in {"join", "publish_result",
                        "returned_ok", "returned_err"})
    /\ [][duration_limit_reached =>
             (duration_limit_reached' /\ handles' = handles)]_vars
    /\ [](duration_limit_reached /\ Assembled
             => /\ AllFinished
                /\ result.total_requests = Len(handles))
    /\ [][duration_limit_reached =>
             \A t \in TaskIds :
                 tasks[t].st # "unspawned" => tasks'[t].st # "unspawned"]_vars
    /\ duration_limit_reached ~> AllFinished

\* C7, amended: the same, except that the requests dispatched before the
\* gate tripped all finish and are recorded only if the worker process
\* lives long enough: when it ends (main panics on a refused settlement or
\* returns at the end of the consumer stream) the requests in flight are
\* cancelled where they are and nothing more is recorded.
C7_DurationGateWhileAlive ==
    /\ [][(pc # "acquire" /\ pc' = "acquire")
             => (pc = "loop_check" /\ ~ DurationExceeded(message, now'))]_vars
    /\ [](duration_limit_reached =>
             /\ i < message.total_requests
             /\ pc \in {"join", "publish_result",
                        "returned_ok", "returned_err"})
    /\ [][duration_limit_reached =>
             (duration_limit_reached' /\ handles' = handles)]_vars
    /\ [](duration_limit_reached /\ Assembled
             => /\ AllFinished
                /\ result.total_requests = Len(handles))
    /\ [][duration_limit_reached =>
             \A t \in TaskIds :
                 tasks[t].st # "unspawned" => tasks'[t].st # "unspawned"]_vars
    /\ duration_limit_reached ~> (AllFinished \/ ~ ProcessAlive)
    /\ [][~ ProcessAlive =>
             /\ main_pc' = main_pc
             /\ tasks' = tasks
             /\ stats' = stats]_vars

\* The gate tripped with a request in flight and budget left, and the run
\* went on to its result.
C7_Witness ==
    /\ duration_limit_reached
    /\ Len(handles) >= 1
    /\ Len(handles) < message.total_requests
    /\ Assembled
    /\ result.total_requests = Len(handles)

\* C8: with a rate R >= 1, when a request is about to be issued after k
\* completed batches, at least k seconds have passed.
C8_PacingKeepsRate ==
    (pc = "acquire" /\ message.requests_per_second >= 1)
    => now >= (i \div message.requests_per_second) * MillisPerSecond

Multiples(n, r) == SelectSeq([j \in 1 .. n |-> j], LAMBDA j : j % r = 0)

\* C9: with a rate R >= 1 the pacing sleep has been called exactly after the
\* dispatched requests whose 1-based index is a multiple of R.
C9_BatchPacing ==
    (Constructed /\ message.requests_per_second >= 1)
    => /\ pacing_delays = Multiples(Len(handles), message.requests_per_second)
       /\ Len(pacing_delays) = Len(handles) \div message.requests_per_second

\* Rate 2, three requests: one delay, after request 2, none after request 3.
C9_Witness ==
    /\ pc = "returned_ok"
    /\ message.requests_per_second = 2
    /\ Len(handles) = 3
    /\ pacing_delays = << 2 >>

\* C10: with a rate R >= 1, when the duration gate did not trip and no
\* request failed, the result counts the whole budget as successes, has an
\* error rate of 0 and holds one point per completed batch.
C10_EndToEnd ==
    (/\ Assembled
     /\ message.requests_per_second >= 1
     /\ ~ duration_limit_reached
     /\ result.error_distribution = << >>)
    => /\ result.total_requests = message.total_requests
       /\ result.successful_requests = message.total_requests
       /\ result.failed_requests = 0
       /\ result.error_rate = F64Zero
       /\ Len(result.time_series_data)
              = message.total_requests \div message.requests_per_second

\* Concurrency 2, budget 2, rate 1: 2 successes and 2 points.
C10_Witness ==
    /\ Assembled
    /\ ~ duration_limit_reached
    /\ message.concurrent_users = 2
    /\ message.requests_per_second = 1
    /\ result.total_requests = 2
    /\ result.successful_requests = 2
    /\ result.failed_requests = 0
    /\ Len(result.time_series_data) = 2

\* The three counters of a published metric and of a result.
MetricCounts(m) == << m.request_count, m.success_count, m.error_count >>
ResultCounts(r) ==
    << r.total_requests, r.successful_requests, r.failed_requests >>
StatsCounts(s) ==
    << s.total_requests, s.successful_requests, s.failed_requests >>

\* c is a snapshot whose total is its successes plus its failures.
AddsUp(c) == c[1] = c[2] + c[3]

\* No counter of the snapshot b is below the same counter of a.
NotBelow(a, b) == \A k \in 1 .. 3 : a[k] <= b[k]

\* C11: whenever the sampler or the final read holds the statistics, and in
\* every published metric and in the result, total_requests is
\* successful_requests + failed_requests; and from one snapshot to the next
\* (metric to metric, the metrics to the statistics now, the statistics to
\* the result) no counter decreases.
C11_CountersAddUp ==
    /\ (Started /\ stats_guard \in {"sampler", "final"})
           => AddsUp(StatsCounts(stats))
    /\ \A k \in 1 .. Len(metrics_queue) :
           /\ AddsUp(MetricCounts(metrics_queue[k]))
           /\ NotBelow(MetricCounts(metrics_queue[k]), StatsCounts(stats))
           /\ k > 1 => NotBelow(MetricCounts(metrics_queue[k - 1]),
                                MetricCounts(metrics_queue[k]))
    /\ Assembled =>
           /\ AddsUp(ResultCounts(result))
           /\ ResultCounts(result) = StatsCounts(stats)

\* Two metrics were published, a failure was counted between them, and the
\* result counts a success and a failure.
C11_Witness ==
    /\ Len(metrics_queue) = 2
    /\ metrics_queue[1].error_count < metrics_queue[2].error_count
    /\ Assembled
    /\ result.successful_requests >= 1
    /\ result.failed_requests >= 1

\* Every update of every recorded outcome is in s: the counters add up, the
\* histogram and the status codes hold one entry per success and the error
\* labels one entry per failure.
Whole(s) ==
    /\ AddsUp(StatsCounts(s))
    /\ BagCardinality(s.response_times) = s.successful_requests
    /\ BagCardinality(s.status_codes) = s.successful_requests
    /\ BagCardinality(s.errors) = s.failed_requests

\* The tasks that hold the statistics guard between the two halves of a
\* record call.
Recording ==
    {t \in TaskIds : tasks[t].st \in {"record_success", "record_failure"}}

\* C12: while the sampler or the final read holds the statistics no record
\* call is under way and the statistics hold every update of every outcome
\* recorded so far or none of it; so do the published metrics (an average
\* latency above 0 comes with a counted success) and the result.
C12_SnapshotIsWhole ==
    /\ (Started /\ stats_guard \in {"sampler", "final"}) =>
           /\ Recording = {}
           /\ Whole(stats)
    /\ \A k \in 1 .. Len(metrics_queue) :
           /\ AddsUp(MetricCounts(metrics_queue[k]))
           /\ (metrics_queue[k].avg_response_time > 0)
                  => (metrics_queue[k].success_count > 0)
    /\ Assembled =>
           /\ BagCardinality(result.status_code_distribution)
                  = result.successful_requests
           /\ BagCardinality(result.error_distribution)
                  = result.failed_requests
           /\ (result.average_response_time > 0)
                  => (result.successful_requests > 0)

\* The sampler holds the statistics after one success was recorded, while a
\* second request has its response and waits for the lock.
C12_Witness ==
    /\ stats_guard = "sampler"
    /\ stats.successful_requests = 1
    /\ \E t \in TaskIds : tasks[t].st = "lock_success"

(***************************************************************************)
(* Runs of two full batches at the highest rate: the deliveries are the    *)
(* malformed payload and the messages with requestsPerSecond = MaxRate, a  *)
(* budget of 2 * MaxRate and one permit, with the longest duration, so     *)
(* that the sampler runs twice.                                            *)
(***************************************************************************)
TwoBatchPayloads ==
    { [wellformed |-> FALSE, concurrentUsers |-> 0, totalRequests |-> 0,
       durationSeconds |-> 0, requestsPerSecond |-> 0] }
    \cup
    [ wellformed : {TRUE},
      concurrentUsers : {1},
      totalRequests : {2 * MaxRate},
      durationSeconds : {MaxDuration},
      requestsPerSecond : {MaxRate} ]

TwoBatchInit ==
    /\ delivery \in TwoBatchPayloads
    /\ main_pc = "receive"
    /\ settlement = << >>
    /\ message = NoMessage
    /\ pc = "not_spawned"
    /\ i = 0
    /\ now = 0
    /\ wake_at = 0
    /\ permits = 0
    /\ stats_guard = "none"
    /\ stats = NoStats
    /\ tasks = [t \in TaskIds |-> IdleTask]
    /\ handles = << >>
    /\ time_series_data = << >>
    /\ pacing_delays = << >>
    /\ metrics_queue = << >>
    /\ results_queue = << >>
    /\ duration_limit_reached = FALSE
    /\ result = NoResult

TwoBatchSpec == TwoBatchInit /\ [][Next]_vars

\* C13: of every two consecutive points of the time series the later one
\* has the strictly greater timestamp.
C13_TimestampsIncrease ==
    \A k \in 2 .. Len(time_series_data) :
        time_series_data[k - 1].timestamp < time_series_data[k].timestamp

\* C14: a run publishes at most one result; it returns Ok only with its
\* result published, and when the publish of the result fails it returns an
\* error with nothing published, then or later.
C14_ResultPublishEscalates ==
    /\ Len(results_queue) <= 1
    /\ pc = "returned_ok" => (Assembled /\ results_queue = << result >>)
    /\ pc = "returned_err" => results_queue = << >>
    /\ (Assembled /\ Returned /\ results_queue = << >>)
           => pc = "returned_err"
    /\ results_queue # << >> => pc = "returned_ok"

\* The publish of a result over two requests failed and execute returned
\* the error.
C14_Witness ==
    /\ pc = "returned_err"
    /\ Assembled
    /\ result.total_requests = 2
    /\ results_queue = << >>

\* The publishes of a metric that have returned, and those that failed.
MetricPublishes ==
    Len(time_series_data) - (IF pc = "publish_metric" THEN 1 ELSE 0)
MetricFailures == MetricPublishes - Len(metrics_queue)

\* Whatever the publish of a metric returns, the loop goes on to the next
\* index with the point of the sample still in the series.
MetricPublishContinues ==
    (pc = "publish_metric" /\ pc' # pc) =>
        /\ pc' = "loop_check"
        /\ i' = i + 1
        /\ time_series_data' = time_series_data
        /\ results_queue' = results_queue

\* C15: a failed publish of a metric does not end the run and is not
\* returned as an error: the loop continues with the next index, one point
\* per sample stays in the series whether or not its metric was published,
\* the result carries all of them, and execute returns an error only for
\* the publish of the result or, before any sample, for the HTTP client.
C15_MetricFailureNonFatal ==
    /\ [](/\ MetricFailures >= 0
          /\ Len(time_series_data) = Len(pacing_delays)
                 - (IF pc = "sleep" THEN 1 ELSE 0)
          /\ Assembled => result.time_series_data = time_series_data
          /\ pc = "returned_err" =>
                 /\ results_queue = << >>
                 /\ Assembled \/ time_series_data = << >>)
    /\ [][MetricPublishContinues]_vars

\* Both publishes of a metric failed; the run went on, published its result
\* with both points and returned Ok.
C15_Witness ==
    /\ pc = "returned_ok"
    /\ metrics_queue = << >>
    /\ Len(time_series_data) = 2
    /\ Len(results_queue) = 1
    /\ Len(results_queue[1].time_series_data) = 2
    /\ results_queue[1].total_requests = 2

\* No executor, no run and no publication exist for the delivery.
NothingRan ==
    /\ ~ Constructed
    /\ pc = "not_spawned"
    /\ ~ Started
    /\ handles = << >>
    /\ time_series_data = << >>
    /\ metrics_queue = << >>
    /\ results_queue = << >>

\* The consumer is done with the delivery.
Consumed == main_pc \in {"next_delivery", "panicked", "ended"}

\* It is acked only if it parsed, with the executor constructed; it is
\* nacked (without requeue) only if it did not parse; and for a delivery
\* that did not parse nothing has run or been published.
SettledAsParsed ==
    /\ settlement = << "ack" >> => (from_str_ok(delivery) /\ Constructed)
    /\ settlement = << "nack" >> => ~ from_str_ok(delivery)
    /\ ~ from_str_ok(delivery) => NothingRan

\* C16 as stated: the delivery is settled exactly once, when the consumer is
\* done with it and not before, as it parsed or not.
C16_SettledExactlyOnce ==
    /\ Consumed <=> Len(settlement) = 1
    /\ SettledAsParsed

\* C16, amended: the delivery is settled at most once, and not before the
\* consumer comes to its settlement; it is settled exactly once, as it
\* parsed or not, when the settlement call succeeds; when the call fails the
\* worker panics with the delivery unsettled, be its run under way.
C16_SettledAtMostOnce ==
    /\ settlement \in {<< >>, << "ack" >>, << "nack" >>}
    /\ main_pc \in {"receive", "ack", "panicked"} <=> settlement = << >>
    /\ main_pc \in {"next_delivery", "ended"} =>
           (from_str_ok(delivery) <=> settlement = << "ack" >>)
    /\ main_pc = "ack" => (from_str_ok(delivery) /\ Constructed)
    /\ SettledAsParsed

\* The ack of a delivery failed while its run had a request in flight.
C16_Witness ==
    /\ main_pc = "panicked"
    /\ settlement = << >>
    /\ Started
    /\ \E t \in TaskIds : tasks[t].st = "sending"

(***************************************************************************)
(* The statistics taken apart from a run: a fresh aggregate receives       *)
(* record_success and record_failure calls in any order, MaxRecords at     *)
(* most, and is then read into a result as at the end of execute.          *)
(***************************************************************************)
RecordInit ==
    /\ delivery = [wellformed |-> FALSE, concurrentUsers |-> 0,
                   totalRequests |-> 0, durationSeconds |-> 0,
                   requestsPerSecond |-> 0]
    /\ main_pc = "receive"
    /\ settlement = << >>
    /\ message = NoMessage
    /\ pc = "not_spawned"
    /\ i = 0
    /\ now = 0
    /\ wake_at = 0
    /\ permits = 0
    /\ stats_guard = "none"
    /\ stats = StatisticsNew
    /\ tasks = [t \in TaskIds |-> IdleTask]
    /\ handles = << >>
    /\ time_series_data = << >>
    /\ pacing_delays = << >>
    /\ metrics_queue = << >>
    /\ results_queue = << >>
    /\ duration_limit_reached = FALSE
    /\ result = NoResult

RecordUnchanged ==
    UNCHANGED << delivery, main_pc, settlement, message, pc, i, now,
                 wake_at, permits, stats_guard, tasks, handles,
                 time_series_data, pacing_delays, metrics_queue,
                 results_queue, duration_limit_reached >>

\* stats.rs 28-37, called on the aggregate.
RecordSuccessCall(response_time_ms, status_code) ==
    /\ result = NoResult
    /\ stats.total_requests < MaxRecords
    /\ stats' = record_success(stats, response_time_ms, status_code)
    /\ UNCHANGED result
    /\ RecordUnchanged

\* stats.rs 39-45, called on the aggregate.
RecordFailureCall(error) ==
    /\ result = NoResult
    /\ stats.total_requests < MaxRecords
    /\ stats' = record_failure(stats, error)
    /\ UNCHANGED result
    /\ RecordUnchanged

\* load_test.rs 170-196: the aggregate is read into the result.
ReadResult ==
    /\ result = NoResult
    /\ result' = TestResult(stats, time_series_data)
    /\ UNCHANGED stats
    /\ RecordUnchanged

RecordNext ==
    \/ \E status_code \in StatusCodes : RecordSuccessCall(0, status_code)
    \/ \E error \in ErrorLabels : RecordFailureCall(error)
    \/ ReadResult

RecordSpec == RecordInit /\ [][RecordNext]_vars

\* The digits of n * 2^e for e > 0, and of n otherwise.
Scaled(n, e) == IF e > 0 THEN ShiftLeft(n, e) ELSE n

\* x + y, given carry
RECURSIVE Sum(_, _, _)
Sum(x, y, carry) ==
    IF x = << >> THEN Plus(y, carry)
    ELSE IF y = << >> THEN Plus(x, carry)
    ELSE << (Head(x) + Head(y) + carry) % 2 >>
             \o Sum(Tail(x), Tail(y), (Head(x) + Head(y) + carry) \div 2)

\* The f64 x is the rational number n / d exactly.
F64IsRatio(x, n, d) ==
    Scaled(Times(x.sig, d), x.exp) = Scaled(Binary(n), 0 - x.exp)

\* The f64 x is at most u units of its last place away from n / d.
F64NearRatio(x, n, d, u) ==
    LET xd == Scaled(Times(x.sig, d), x.exp)
        nn == Scaled(Binary(n), 0 - x.exp)
        ud == Scaled(Binary(u * d), x.exp)
    IN /\ ~ Less(Sum(xd, ud, 0), nn)
       /\ ~ Less(Sum(nn, ud, 0), xd)

\* The quotient failed / total is a binary fraction of few digits: total is
\* a power of two.
PowerOfTwo(n) == \E k \in 0 .. n : 2 ^ k = n

\* C17 as stated: error_rate is 0 when total_requests = 0 and otherwise
\* error_rate * total_requests = failed_requests * 100 exactly, after any
\* sequence of record calls.
C17_ErrorRateExact ==
    IF stats.total_requests = 0 THEN error_rate(stats) = F64Zero
    ELSE F64IsRatio(error_rate(stats), stats.failed_requests * 100,
                    stats.total_requests)

\* C17, amended: after any sequence of record calls error_rate is 0.0 when
\* total_requests = 0, also in a result read from statistics that recorded
\* nothing; otherwise it is the f64 quotient failed / total times 100.0,
\* rounded twice: it is 0.0 exactly when nothing failed, 100.0 when
\* everything failed, the exact percentage when total_requests is a power
\* of two, and never more than two units of the last place away from
\* failed_requests / total_requests * 100.  The result carries the
\* error_rate of the statistics it was read from.
C17_ErrorRateRoundedTwice ==
    /\ IF stats.total_requests = 0 THEN error_rate(stats) = F64Zero
       ELSE /\ F64NearRatio(error_rate(stats), stats.failed_requests * 100,
                            stats.total_requests, 2)
            /\ (error_rate(stats) = F64Zero) <=> (stats.failed_requests = 0)
            /\ (stats.failed_requests = stats.total_requests)
                   => F64IsRatio(error_rate(stats), 100, 1)
            /\ PowerOfTwo(stats.total_requests)
                   => F64IsRatio(error_rate(stats),
                                 stats.failed_requests * 100,
                                 stats.total_requests)
    /\ Assembled =>
           /\ result.error_rate = error_rate(stats)
           /\ result.total_requests = 0 => result.error_rate = F64Zero

\* 7 failures in 25 requests: 28 is an f64, and the error_rate of the
\* result is another one.
C17_Witness ==
    /\ Assembled
    /\ result.total_requests = 25
    /\ result.failed_requests = 7
    /\ ~ F64IsRatio(result.error_rate, 28, 1)
    /\ F64NearRatio(result.error_rate, 28, 1, 2)

\* What a success writes, and what a failure writes.
SuccessSide(s) == << s.successful_requests, s.response_times, s.status_codes >>
FailureSide(s) == << s.failed_requests, s.errors >>

\* C18: between record calls the status-code counts sum to
\* successful_requests and the error-label counts to failed_requests; a
\* record_failure on the statistics would leave successful_requests, the
\* latency distribution and the status codes as they are and count one
\* failure, and a record_success would leave failed_requests and the error
\* labels as they are and count one success.
C18_RecordsKeepApart ==
    Started =>
        /\ Recording = {} =>
               /\ BagCardinality(stats.status_codes)
                      = stats.successful_requests
               /\ BagCardinality(stats.errors) = stats.failed_requests
        /\ \A e \in ErrorLabels :
               /\ SuccessSide(record_failure(stats, e)) = SuccessSide(stats)
               /\ record_failure(stats, e).failed_requests
                      = stats.failed_requests + 1
               /\ BagCardinality(record_failure(stats, e).errors)
                      = BagCardinality(stats.errors) + 1
        /\ \A rt \in {0, SubBucketCount, SmallestUntrackable},
              code \in StatusCodes :
               /\ FailureSide(record_success(stats, rt, code))
                      = FailureSide(stats)
               /\ record_success(stats, rt, code).successful_requests
                      = stats.successful_requests + 1
               /\ BagCardinality(record_success(stats, rt, code).status_codes)
                      = BagCardinality(stats.status_codes) + 1

\* A success and a failure are recorded, no record call is under way and a
\* third request is still being sent.
C18_Witness ==
    /\ Started
    /\ Recording = {}
    /\ stats.successful_requests = 1
    /\ stats.failed_requests = 1
    /\ \E t \in TaskIds : tasks[t].st = "sending"

\* The last instant observed is at or past the duration ceiling of the run.
CeilingReached == Started /\ now >= test_duration(message)

\* Once the ceiling is reached the loop does not go on to a new admission:
\* the duration check, when the loop comes to it, leaves the loop; and a
\* request is dispatched only if the loop was waiting for its permit, which
\* it then no longer is.
NoDispatchPastCeiling ==
    CeilingReached =>
        /\ pc # "acquire" => pc' # "acquire"
        /\ (pc = "loop_check" /\ pc' # pc) => pc' = "join"
        /\ handles' # handles =>
               /\ pc = "acquire"
               /\ pc' # "acquire"
               /\ Len(handles') = Len(handles) + 1

\* C19: a request whose duration check passed is dispatched whenever its
\* permit comes, be it past the ceiling; but from the first instant at or
\* past the ceiling on only the request the loop is waiting to admit is
\* dispatched, so at most one request of a run is dispatched past the
\* ceiling, and the next duration check stops the loop.
C19_OneLateDispatch == [][NoDispatchPastCeiling]_vars

\* With one permit, the second request passed its check before the ceiling,
\* waited for the permit of the first and was dispatched at or past the
\* ceiling; a third request is left in the budget.
C19_Witness ==
    /\ Started
    /\ message.concurrent_users = 1
    /\ message.requests_per_second = 2
    /\ message.total_requests = 3
    /\ message.duration_seconds >= 1
    /\ pc = "sleep"
    /\ Len(handles) = 2
    /\ time_series_data = << >>
    /\ ~ duration_limit_reached
    /\ now >= test_duration(message)

\* The sampler is between its snapshot and the return of the publish of
\* the metric of that sample.
Sampling == pc = "publish_metric"

\* The tasks whose send has returned and whose outcome is not recorded; and
\* the tasks whose outcome is recorded and whose permit is not given back.
AwaitingLock ==
    {t \in TaskIds : tasks[t].st \in {"lock_success", "lock_failure"}}
AwaitingDrop == {t \in TaskIds : tasks[t].st = "drop_permit"}

\* The metric m carries the counts behind the point p.
SameSnapshot(m, p) ==
    /\ AddsUp(MetricCounts(m))
    /\ m.avg_response_time = p.avg_response_time
    /\ p.error_rate = error_rate([total_requests |-> m.request_count,
                                  failed_requests |-> m.error_count])
    /\ MetricCounts(m) = StatsCounts(stats)

\* A metric published in the step is that of the last point.
PublishesSnapshot ==
    metrics_queue' # metrics_queue =>
        SameSnapshot(metrics_queue'[Len(metrics_queue')],
                     time_series_data[Len(time_series_data)])

\* C20 as stated: while the sampler is between its snapshot and the return
\* of the publish, it holds the statistics, they do not change, no request
\* whose send has returned records its outcome or gives its permit back,
\* and the metric published carries the counts of the snapshot.
C20_SamplerFreezesAll ==
    [][Sampling =>
          /\ stats_guard = "sampler"
          /\ stats' = stats
          /\ \A t \in AwaitingLock \cup AwaitingDrop : tasks'[t] = tasks[t]
          /\ permits' = permits
          /\ PublishesSnapshot]_vars

\* C20, amended: while the sampler is between its snapshot and the return
\* of the publish, it holds the statistics, they do not change, no request
\* whose outcome is not recorded yet records it or gives its permit back
\* (only a request recorded before the snapshot can give its permit back),
\* and the metric published carries the counts of the snapshot.
C20_SamplerFreezesStats ==
    [][Sampling =>
          /\ stats_guard = "sampler"
          /\ Recording = {}
          /\ stats' = stats
          /\ \A t \in AwaitingLock : tasks'[t] = tasks[t]
          /\ permits' # permits =>
                 \E t \in AwaitingDrop :
                     /\ tasks'[t].st = "finished"
                     /\ permits' = permits + 1
          /\ PublishesSnapshot]_vars

\* During the publish of a metric one request waits for the statistics with
\* its response, and another, recorded before the snapshot, has its permit
\* still.
C20_Witness ==
    /\ Sampling
    /\ stats_guard = "sampler"
    /\ AwaitingLock # {}
    /\ AwaitingDrop # {}
    /\ stats.total_requests = 1

=============================================================================
